---- MODULE Spec2Model ----
(***************************************************************************)
(* Model of the weight-storage orchestrator (gemma/weights.cc) and of the  *)
(* aligned allocator (util/allocator.h).                                   *)
(*                                                                         *)
(* One ModelWeightsStorage instance, the weight files it can touch and the *)
(* process it lives in form the state of Spec.  Every public operation of  *)
(* the storage is one action; the results of the blob codec (error codes,  *)
(* file contents) and the caller's arguments are the inputs of an action.  *)
(* SpecAlloc applies Allocator::Alloc<T> to inputs drawn by its Init.      *)
(* SpecRows constructs a RowPtr<T> in a geometry drawn by its Init and      *)
(* applies SetStride and View to it.  SpecBatch constructs a                *)
(* RowVectorBatch<T>.  SpecClasses applies Allocator::AllocClasses<T> and   *)
(* then releases the handle it returned.  SpecReshape applies               *)
(* LayerWeightsPtrs<NuqStream>::Reshape to one layer.  SpecOwn constructs,  *)
(* moves and destroys AlignedPtr and RowVectorBatch objects.  SpecBatchWide *)
(* constructs a RowVectorBatch with extents over the range of size_t.       *)
(***************************************************************************)
EXTENDS Integers, Sequences, FiniteSets, TLC

VARIABLES
    config_,          \* ModelWeightsStorage::config_
    float_weights_,   \* std::unique_ptr<ModelWeightsPtrs<float>>
    bf16_weights_,    \* std::unique_ptr<ModelWeightsPtrs<BF16>>
    sfp_weights_,     \* std::unique_ptr<ModelWeightsPtrs<SfpStream>>
    nuq_weights_,     \* std::unique_ptr<ModelWeightsPtrs<NuqStream>>
    files,            \* the weight files, by path
    aborted,          \* TRUE once HWY_ABORT / HWY_ASSERT ended the process
    calls,            \* number of operations called so far
    last,             \* record of the last operation: arguments, steps, result
    a_in,             \* allocator.h: the inputs of the operation examined
    a_out             \* allocator.h: the handle or object it produced

storageVars == <<config_, float_weights_, bf16_weights_, sfp_weights_,
                 nuq_weights_, files, aborted, calls, last>>
allocVars == <<a_in, a_out>>
vars == <<config_, float_weights_, bf16_weights_, sfp_weights_, nuq_weights_,
          files, aborted, calls, last, a_in, a_out>>

----------------------------------------------------------------------------
(* Bounds of the model.                                                    *)

\* Operations called on the storage in one behaviour.
MaxCalls == 4
\* Largest element value a tensor holds (element values are 0..MaxVal).
MaxVal == 2
\* Largest per-tensor scale (scales are 1..MaxScale; 1 stands for 1.0f).
MaxScale == 2
\* Largest value of each of the two scale counts of a config.
MaxScaleCount == 1
\* Width of size_t in bits.
WordBits == 8
\* Rows 0..MaxRow of a RowPtr are examined.
MaxRow == 130
\* Constructor, SetStride and View calls on RowPtr objects in one behaviour.
MaxRowOps == 3
\* Largest row count, column count and stride of a RowVectorBatch.
MaxBatchDim == 4
\* Largest model_dim, heads and qkv_dim of a layer config.
MaxDim == 2
\* AlignedPtr / RowVectorBatch objects that exist at one time.
MaxHandles == 2
\* Buffers that AllocBytes hands out in one behaviour.
MaxBuffers == 2

----------------------------------------------------------------------------
(* Types.                                                                  *)

\* gcpp::Type tags.  The four of VariantTypes have a container; kUnknown and
\* kF64 stand for the tags CreateForType does not handle.
VariantTypes == {"kF32", "kBF16", "kSFP", "kNUQ"}
Types == VariantTypes \cup {"kUnknown", "kF64"}

\* gcpp::Model tags.
Models == {"UNKNOWN", "GEMMA_TINY"}

\* gcpp::PromptWrapping tags.
Wrappings == {"GEMMA_IT", "GEMMA_PT"}

\* The named tensors of a container, in traversal order, and their element
\* counts (MatPtr::NumElements).
TensorNames == <<"embedder_input_embedding", "final_norm_scale">>
NameSet == {TensorNames[i] : i \in 1..Len(TensorNames)}
NumElements(name) == IF name = "embedder_input_embedding" THEN 2 ELSE 1

\* Element values a program writes, and the value that stands for the
\* contents of memory nobody wrote yet.
Vals == 0..MaxVal
Indeterminate == MaxVal + 1
Scales == 1..MaxScale

\* A default-constructed ModelConfig.
DefaultConfig ==
    [model |-> "UNKNOWN", weight |-> "kUnknown", wrapping |-> "GEMMA_IT",
     model_dim |-> 0, num_tensor_scales |-> 0, vit_num_scales |-> 0]

\* A tensor whose elements all read as v, with the default scale 1.0.
FreshTensor(name, v) ==
    [data |-> [i \in 1..NumElements(name) |-> v], scale |-> 1]

\* An empty std::unique_ptr<ModelWeightsPtrs<T>>.
NullPtrs ==
    [live |-> FALSE,
     tensors |-> [n \in NameSet |-> FreshTensor(n, 0)],
     transposed |-> FALSE]

\* std::make_unique<ModelWeightsPtrs<T>>(config_): a new container, whose
\* tensors nobody wrote yet.
NewPtrs ==
    [live |-> TRUE,
     tensors |-> [n \in NameSet |-> FreshTensor(n, Indeterminate)],
     transposed |-> FALSE]


----------------------------------------------------------------------------
(* The storage as one value, and the codes its operations return.          *)

\* The fields of the ModelWeightsStorage instance.
St ==
    [config |-> config_,
     w |-> [t \in VariantTypes |->
              CASE t = "kF32" -> float_weights_
                [] t = "kBF16" -> bf16_weights_
                [] t = "kSFP" -> sfp_weights_
                [] t = "kNUQ" -> nuq_weights_]]

\* The variant containers that are live (non-null) in storage value s.
LiveSet(s) == {t \in VariantTypes : s.w[t].live}

\* `return __LINE__;` of Load.
LineErr == 85
\* A nonzero BlobError of the container codec.
BlobErr == 1
\* Marks the result of an operation that returned nothing.
NoRet == 0 - 1

----------------------------------------------------------------------------
(* ModelWeightsStorage::CreateForType                                      *)

\* Mutant of CreateForType: the kBF16 case fills the float32 pointer.
CreateForTypeWrongSlot(s, weight_type) ==
    CASE weight_type = "kF32" ->
           [s |-> [s EXCEPT !.w["kF32"] = NewPtrs], abort |-> FALSE]
      [] weight_type = "kBF16" ->
           [s |-> [s EXCEPT !.w["kF32"] = NewPtrs], abort |-> FALSE]
      [] weight_type = "kSFP" ->
           [s |-> [s EXCEPT !.w["kSFP"] = NewPtrs], abort |-> FALSE]
      [] weight_type = "kNUQ" ->
           [s |-> [s EXCEPT !.w["kNUQ"] = NewPtrs], abort |-> FALSE]
      [] OTHER -> [s |-> s, abort |-> TRUE]

CreateForType(s, weight_type) ==
    CASE weight_type = "kF32" ->
           [s |-> [s EXCEPT !.w["kF32"] = NewPtrs], abort |-> FALSE]
      [] weight_type = "kBF16" ->
           [s |-> [s EXCEPT !.w["kBF16"] = NewPtrs], abort |-> FALSE]
      [] weight_type = "kSFP" ->
           [s |-> [s EXCEPT !.w["kSFP"] = NewPtrs], abort |-> FALSE]
      [] weight_type = "kNUQ" ->
           [s |-> [s EXCEPT !.w["kNUQ"] = NewPtrs], abort |-> FALSE]
      [] OTHER -> [s |-> s, abort |-> TRUE]

----------------------------------------------------------------------------
(* ModelWeightsStorage::Allocate                                           *)

\* ModelWeightsPtrs<T>::Allocate: every tensor gets backing storage, which
\* nobody wrote yet.
PtrsAllocate(p) ==
    [p EXCEPT !.tensors =
        [n \in NameSet |->
            [data |-> [i \in 1..NumElements(n) |-> Indeterminate],
             scale |-> p.tensors[n].scale]]]

\* Result: the storage after the call, whether the process aborted, and the
\* containers whose Allocate was invoked.
Allocate(s, config, weight_type) ==
    LET s1 == [s EXCEPT !.config = [config EXCEPT !.weight = weight_type]]
        c == CreateForType(s1, weight_type)
    IN  IF c.abort
        THEN [s |-> s1, abort |-> TRUE, allocated |-> {}]
        ELSE [s |-> [c.s EXCEPT !.w =
                        [t \in VariantTypes |->
                            IF c.s.w[t].live
                            THEN PtrsAllocate(c.s.w[t])
                            ELSE c.s.w[t]]],
              abort |-> FALSE,
              allocated |-> LiveSet(c.s)]

----------------------------------------------------------------------------
(* Weight files and the blob codec (ReadFromBlobStore / WriteToBlobStore). *)

Paths == {"legacy.sbs", "toc.sbs", "out.sbs"}

\* A path at which no file exists.
NoFile ==
    [exists |-> FALSE, toc |-> FALSE, config |-> DefaultConfig,
     tensors |-> [n \in NameSet |-> FreshTensor(n, 0)], blobs |-> {},
     scales |-> <<>>, from |-> "none"]

\* A legacy file: config-less tensor blobs and one trailing array of scales.
LegacyFile ==
    [exists |-> TRUE, toc |-> FALSE, config |-> DefaultConfig,
     tensors |-> [n \in NameSet |-> FreshTensor(n, 1)],
     blobs |-> {<<n, 1>> : n \in NameSet},
     scales |-> [i \in 1..(2 * MaxScaleCount) |-> MaxScale],
     from |-> "none"]

\* A file with a table of contents: config, tensor blobs with their scales.
\* blobs are the <<name, index in the span>> of the tensors written; from is
\* the container a Save wrote them from ("none": the file was not written
\* by a Save of this storage).
TocFile(config, tensors, blobs, from) ==
    [exists |-> TRUE, toc |-> TRUE, config |-> config,
     tensors |-> tensors, blobs |-> blobs, scales |-> <<>>, from |-> from]

\* ConfigFromModel: the config the built-in registry holds for model_type;
\* reg is the registry's pair of scale counts for that model.
ConfigFromModel(model_type, reg) ==
    [model |-> model_type, weight |-> "kUnknown", wrapping |-> "GEMMA_IT",
     model_dim |-> 1, num_tensor_scales |-> reg[1], vit_num_scales |-> reg[2]]

\* CallForModelWeightT: the live container the functor is applied to.  With
\* one live container it is that one; pick decides among several.
Dispatch(s, pick) ==
    IF pick \in LiveSet(s) THEN pick ELSE CHOOSE t \in LiveSet(s) : TRUE

\* ReadFromBlobStore::ReadAll on success: every tensor handed to the loader
\* gets the bytes of the blob of its name and, in a file with a table of
\* contents, the scale stored with it.
PtrsRead(p, f, handed) ==
    [p EXCEPT !.tensors =
        [n \in NameSet |->
            IF n \in handed /\ <<n, 1>> \in f.blobs
            THEN [data |-> f.tensors[n].data,
                  scale |-> IF f.toc THEN f.tensors[n].scale
                            ELSE p.tensors[n].scale]
            ELSE p.tensors[n]]]

\* ModelWeightsPtrs<T>::GetOrApplyScales with a non-empty list: the i-th scale
\* becomes the scale of the i-th tensor of the traversal.
PtrsApplyScales(p, scales) ==
    [p EXCEPT !.tensors =
        [n \in NameSet |->
            LET i == CHOOSE k \in 1..Len(TensorNames) : TensorNames[k] = n
            IN  IF i <= Len(scales)
                THEN [p.tensors[n] EXCEPT !.scale = scales[i]]
                ELSE p.tensors[n]]]

\* ModelWeightsPtrs<T>::AllocAndCopyWithTranspose.
PtrsTranspose(p) == [p EXCEPT !.transposed = TRUE]

\* ModelWeightsStorage::GetOrApplyScales: forwarded to every live container.
GetOrApplyScales(s, scales) ==
    [s EXCEPT !.w =
        [t \in VariantTypes |->
            IF s.w[t].live THEN PtrsApplyScales(s.w[t], scales)
            ELSE s.w[t]]]

\* ModelWeightsStorage::AllocAndCopyWithTranspose: forwarded to every live
\* container.
AllocAndCopyWithTranspose(s) ==
    [s EXCEPT !.w =
        [t \in VariantTypes |->
            IF s.w[t].live THEN PtrsTranspose(s.w[t]) ELSE s.w[t]]]

\* ModelWeightsPtrs<T>::ForEachTensor(ptrs, fet, func): func is called once
\* per named tensor, with the tensor's name and a span holding that tensor
\* of every container listed in ptrs.  The result is the set of
\* <<name, index in the span>> presented; the enumeration is the same for
\* every fet.
ForEachTensor(ptrs, fet) ==
    {<<n, i>> : n \in NameSet, i \in 1..Len(ptrs)}

\* TensorLoader: hands every span, whole, to the loader.
TensorLoader(d, fet) == ForEachTensor(<<d>>, fet)

\* TensorSaver: adds tensors[0] of every span to the writer.
TensorSaver(d, fet) == {e \in ForEachTensor(<<d>>, fet) : e[2] = 1}

----------------------------------------------------------------------------
(* ModelWeightsStorage::Load                                               *)

\* Mutant of FileMissing: the existence check is left out.
FileMissingUnchecked(f) == FALSE

\* !weights.Exists()
FileMissing(f) == ~f.exists

\* Line 68: the config of a file with a table of contents cannot be used.
ConfigLoadFailed(err, config) == err # 0 \/ config.model_dim = 0

\* Mutant of LegacyTypesMissing: && in place of ||.
LegacyTypesMissingBoth(weight_type, model_type) ==
    weight_type = "kUnknown" /\ model_type = "UNKNOWN"

\* Line 80: a legacy file needs both types from the caller.
LegacyTypesMissing(weight_type, model_type) ==
    weight_type = "kUnknown" \/ model_type = "UNKNOWN"

\* Mutant of ScaleListLen: the scales of the vit config are forgotten.
ScaleListLenNoVit(config) == config.num_tensor_scales

\* Line 91: the length of the scale list of a legacy file.
ScaleListLen(config) == config.num_tensor_scales + config.vit_num_scales

\* s: the storage; f: the file at the path; model_type, weight_type,
\* wrapping, want_tok (tokenizer_proto != nullptr): the arguments;
\* io: the codes LoadConfig, LoadTokenizer and ReadAll return; reg: the
\* registry's scale counts; pick: see Dispatch.
\* Result: the storage after the call, abort, the code returned, the calls
\* made in order, the traversal mode, the length of the scale list
\* registered with LoadScales, and the tensors handed to the loader.
Load(s, f, model_type, weight_type, wrapping, want_tok, io, reg, pick) ==
    LET Res(s2, ab, ret, steps, fet, handed, n) ==
            [s |-> s2, abort |-> ab, ret |-> ret, steps |-> steps,
             fet |-> fet, handed |-> handed, nscales |-> n]
        fet == IF f.toc THEN "kLoadWithToc" ELSE "kLoadNoToc"
        \* Lines 66-92: the config and the scale list.
        cfg_err == IF fet = "kLoadWithToc" THEN io.cfg_err ELSE 0
        s_cfg ==
            IF fet = "kLoadWithToc"
            THEN IF io.cfg_err = 0 THEN [s EXCEPT !.config = f.config] ELSE s
            ELSE [s EXCEPT !.config =
                     [ConfigFromModel(model_type, reg)
                         EXCEPT !.weight = weight_type,
                                !.wrapping = wrapping]]
        nscales ==
            IF fet = "kLoadWithToc" THEN 0
            ELSE ScaleListLen(s_cfg.config)
        pre ==
            IF fet = "kLoadWithToc"
            THEN <<"Open", "LoadConfig">>
                 \o (IF want_tok THEN <<"LoadTokenizer">> ELSE <<>>)
            ELSE <<"Open">>
        \* Lines 93-110.
        c == CreateForType(s_cfg, s_cfg.config.weight)
        d == Dispatch(c.s, pick)
        handed == TensorLoader(d, fet)
        names == {e[1] : e \in handed}
        reg_steps ==
            pre \o <<"CreateForType", "TensorLoader">>
                \o (IF nscales > 0 THEN <<"LoadScales">> ELSE <<>>)
                \o <<"ReadAll">>
        scales == [i \in 1..nscales |-> f.scales[i]]
        s_read == [c.s EXCEPT !.w[d] = PtrsRead(@, f, names)]
        s_scaled ==
            IF nscales > 0 THEN GetOrApplyScales(s_read, scales) ELSE s_read
        s_done ==
            IF fet = "kLoadNoToc"
            THEN AllocAndCopyWithTranspose(s_scaled) ELSE s_scaled
        done_steps ==
            reg_steps
                \o (IF nscales > 0 THEN <<"GetOrApplyScales">> ELSE <<>>)
                \o (IF fet = "kLoadNoToc"
                    THEN <<"AllocAndCopyWithTranspose">> ELSE <<>>)
    IN  IF FileMissing(f)
        THEN Res(s, TRUE, NoRet, <<>>, "none", {}, 0)
        ELSE IF fet = "kLoadWithToc"
                /\ ConfigLoadFailed(cfg_err, s_cfg.config)
        THEN Res(s_cfg, FALSE, cfg_err, <<"Open", "LoadConfig">>, fet, {}, 0)
        ELSE IF fet = "kLoadWithToc" /\ want_tok /\ io.tok_err # 0
        THEN Res(s_cfg, FALSE, io.tok_err, pre, fet, {}, 0)
        ELSE IF fet = "kLoadNoToc"
                /\ LegacyTypesMissing(weight_type, model_type)
        THEN Res(s, FALSE, LineErr, <<"Open">>, fet, {}, 0)
        ELSE IF c.abort
        THEN Res(s_cfg, TRUE, NoRet, pre \o <<"CreateForType">>, fet, {},
                 nscales)
        ELSE IF io.read_err # 0
        THEN Res(c.s, FALSE, io.read_err, reg_steps, fet, handed, nscales)
        ELSE Res(s_done, FALSE, 0, done_steps, fet, handed, nscales)

----------------------------------------------------------------------------
(* ModelWeightsStorage::Save                                               *)

\* Mutant of SaveFet: Save traverses in the legacy mode.
SaveFetNoToc == "kLoadNoToc"

\* Line 130: the traversal mode of Save.
SaveFet == "kLoadWithToc"

\* s: the storage; old: the file at the path before the call; write_err:
\* the code WriteAll returns; pick: see Dispatch.  Result: the code
\* returned, the calls made in order, the traversal mode, the tensors added
\* to the writer, the container they are of, and the file after the call.
Save(s, old, write_err, pick) ==
    LET fet == SaveFet
        d == Dispatch(s, pick)
        added == TensorSaver(d, fet)
        names == {e[1] : e \in added}
        written ==
            TocFile(s.config,
                    [n \in NameSet |->
                        IF n \in names THEN s.w[d].tensors[n]
                        ELSE FreshTensor(n, 0)],
                    added, d)
    IN  [ret |-> IF write_err # 0 THEN write_err ELSE 0,
         steps |-> <<"TensorSaver", "AddTokenizer", "WriteAll">>,
         fet |-> fet, added |-> added, from |-> d,
         file |-> IF write_err # 0 THEN old ELSE written]

----------------------------------------------------------------------------
(* WeightInitializer and ModelWeightsStorage::RandInit                     *)

\* Elements of the tensors that precede tensor number k in the traversal.
RECURSIVE ElementsBefore(_)
ElementsBefore(k) ==
    IF k <= 1 THEN 0
    ELSE ElementsBefore(k - 1) + NumElements(TensorNames[k - 1])

TensorIndex(name) == CHOOSE k \in 1..Len(TensorNames) : TensorNames[k] = name

\* dist_(gen_): the value of the k-th draw from a generator seeded with seed.
Draw(seed, k) == (seed + k) % (MaxVal + 1)

\* Mutant of WeightInitializer: the scale is left as it was.
WeightInitializerKeepScale(tensor, name, seed) ==
    [data |-> [i \in 1..NumElements(name) |->
                  Draw(seed, ElementsBefore(TensorIndex(name)) + i)],
     scale |-> tensor.scale]

\* WeightInitializer::operator(): writes every element of tensors[0] and
\* sets its scale to 1.0f.
WeightInitializer(tensor, name, seed) ==
    [data |-> [i \in 1..NumElements(name) |->
                  Draw(seed, ElementsBefore(TensorIndex(name)) + i)],
     scale |-> 1]

\* Result: the storage after the call, abort, and the tensors the
\* initializer was called for.
RandInit(s, seed) ==
    IF ~s.w["kF32"].live
    THEN [s |-> s, abort |-> TRUE, written |-> {}]
    ELSE LET each == ForEachTensor(<<"kF32">>, "kLoadNoToc")
             names == {e[1] : e \in {x \in each : x[2] = 1}}
         IN  [s |-> [s EXCEPT !.w["kF32"].tensors =
                        [n \in NameSet |->
                            IF n \in names
                            THEN WeightInitializer(@[n], n, seed)
                            ELSE @[n]]],
              abort |-> FALSE,
              written |-> names]

----------------------------------------------------------------------------
(* ModelWeightsStorage::ZeroInit                                           *)

\* ModelWeightsPtrs<T>::ZeroInit: every element of every tensor becomes 0.
PtrsZeroInit(p) ==
    [p EXCEPT !.tensors =
        [n \in NameSet |->
            [data |-> [i \in 1..NumElements(n) |-> 0],
             scale |-> p.tensors[n].scale]]]

\* Mutant of ZeroInit: only the float32 container is forwarded to.
ZeroInitFloatOnly(s) ==
    [s EXCEPT !.w["kF32"] =
        IF s.w["kF32"].live THEN PtrsZeroInit(s.w["kF32"]) ELSE s.w["kF32"]]

\* ModelWeightsStorage::ZeroInit: forwarded to every live container.
ZeroInit(s) ==
    [s EXCEPT !.w =
        [t \in VariantTypes |->
            IF s.w[t].live THEN PtrsZeroInit(s.w[t]) ELSE s.w[t]]]

----------------------------------------------------------------------------
(* Allocator::Alloc<T>                                                     *)

\* size_t values are 0 .. SizeMax - 1; arithmetic wraps at SizeMax.
SizeMax == 2 ^ WordBits

\* sizeof(T) of the element types, and the QuantumBytes() of the geometries.
ElementSizes == {1, 2, 3, 4, 6, 8, 12, 16}
QuantumChoices == {16, 32, 64}

\* hwy::detail::ShiftCount
RECURSIVE ShiftCount(_)
ShiftCount(n) == IF n <= 1 THEN 0 ELSE 1 + ShiftCount(n \div 2)

\* (kSize & (kSize - 1)) == 0
IsPow2(kSize) == 2 ^ ShiftCount(kSize) = kSize

\* hwy::RoundUpTo
RoundUpTo(what, align) == ((what + align - 1) \div align) * align

\* hwy::RoundUpTo on size_t operands: the sum and the product wrap.
RoundUpToSizeT(what, align) ==
    ((((what + align - 1) % SizeMax) \div align) * align) % SizeMax

\* An empty AlignedPtr<T>: null pointer, default-constructed DeleterFree.
EmptyHandle ==
    [empty |-> TRUE, requested |-> 0, size |-> 0, free_bytes |-> 0]

\* Allocator::AllocBytes: memory whose size is the multiple of quantum bytes
\* that holds the bytes asked for, and a deleter that records the bytes.
AllocBytes(bytes, quantum) ==
    [empty |-> FALSE, requested |-> bytes,
     size |-> RoundUpTo(bytes, quantum), free_bytes |-> bytes]

\* Mutant of AllocCheck: the shift is used for every element size.
AllocCheckShiftOnly(bytes, kSize) == bytes \div (2 ^ ShiftCount(kSize))

\* The overflow check of Alloc: bytes recomputed back into an element count.
AllocCheck(bytes, kSize) ==
    IF IsPow2(kSize)
    THEN bytes \div (2 ^ ShiftCount(kSize))
    ELSE bytes \div kSize

\* Allocator::Alloc<T>(num), with kSize = sizeof(T).
Alloc(num, kSize, quantum) ==
    LET kBits == ShiftCount(kSize)
        bytes == IF IsPow2(kSize)
                 THEN (num * (2 ^ kBits)) % SizeMax
                 ELSE (num * kSize) % SizeMax
        check == AllocCheck(bytes, kSize)
    IN  IF check # num THEN EmptyHandle ELSE AllocBytes(bytes, quantum)

----------------------------------------------------------------------------
(* Initial states.                                                         *)

\* The configs a caller passes to Allocate.
InputConfigs ==
    {[model |-> "GEMMA_TINY", weight |-> "kSFP", wrapping |-> "GEMMA_IT",
      model_dim |-> d, num_tensor_scales |-> 1, vit_num_scales |-> 0] :
        d \in {0, 1}}

\* The weight types passed to Load, the paths passed to Save, the seeds of
\* the generators passed to RandInit.
LoadTypes == {"kUnknown", "kF32", "kNUQ", "kF64"}
SavePaths == {"out.sbs"}
Seeds == 1..MaxVal

\* The configs of the file with a table of contents that exists at the start.
TocConfigs ==
    {[model |-> "GEMMA_TINY", weight |-> "kBF16", wrapping |-> "GEMMA_PT",
      model_dim |-> d, num_tensor_scales |-> 1, vit_num_scales |-> 0] :
        d \in {0, 1}}

\* A default-constructed ModelWeightsStorage.
StorageInit ==
    /\ config_ = DefaultConfig
    /\ float_weights_ = NullPtrs
    /\ bf16_weights_ = NullPtrs
    /\ sfp_weights_ = NullPtrs
    /\ nuq_weights_ = NullPtrs
    /\ aborted = FALSE
    /\ calls = 0
    /\ last = [op |-> "none", ret |-> NoRet, steps |-> <<>>,
               info |-> [none |-> TRUE]]

FilesInit ==
    \E c \in TocConfigs :
        files = [p \in Paths |->
                    CASE p = "legacy.sbs" -> LegacyFile
                      [] p = "toc.sbs" ->
                           TocFile(c, [n \in NameSet |->
                                          [data |-> [i \in 1..NumElements(n)
                                                        |-> MaxVal],
                                           scale |-> MaxScale]],
                                   {<<n, 1>> : n \in NameSet}, "none")
                      [] OTHER -> NoFile]

AllocIdle ==
    /\ a_in = [num |-> 0, size |-> 1, quantum |-> 16]
    /\ a_out = [pc |-> "idle", handle |-> EmptyHandle]

Init == StorageInit /\ FilesInit /\ AllocIdle

----------------------------------------------------------------------------
(* Actions: one per operation of the storage.                              *)

\* The storage fields take the values of storage value s.
Commit(s) ==
    /\ config_' = s.config
    /\ float_weights_' = s.w["kF32"]
    /\ bf16_weights_' = s.w["kBF16"]
    /\ sfp_weights_' = s.w["kSFP"]
    /\ nuq_weights_' = s.w["kNUQ"]

\* An operation can be called while the process runs.
CanCall == ~aborted /\ calls < MaxCalls

\* The containers CallForModelWeightT may be applied to once a container of
\* type t has been created in storage s.
Picks(s, t) ==
    LET cand == LiveSet(s) \cup ({t} \cap VariantTypes)
    IN  IF cand = {} THEN {"kF32"} ELSE cand

AllocateAct ==
    /\ CanCall
    /\ \E config \in InputConfigs, weight_type \in Types :
        LET r == Allocate(St, config, weight_type)
        IN  /\ Commit(r.s)
            /\ aborted' = r.abort
            /\ last' = [op |-> "Allocate", ret |-> NoRet, steps |-> <<>>,
                        info |-> [config |-> config,
                                  weight_type |-> weight_type,
                                  allocated |-> r.allocated]]
    /\ calls' = calls + 1
    /\ UNCHANGED <<files, a_in, a_out>>

\* The arguments of a Load of file f that its outcome depends on; the other
\* arguments keep one value.
LoadArgs(f) ==
    IF ~f.exists
    THEN {[model_type |-> m, weight_type |-> t, wrapping |-> "GEMMA_PT",
           want_tok |-> FALSE] : m \in Models, t \in LoadTypes}
    ELSE IF f.toc
    THEN {[model_type |-> "UNKNOWN", weight_type |-> "kUnknown",
           wrapping |-> "GEMMA_PT", want_tok |-> k] : k \in BOOLEAN}
    ELSE {[model_type |-> m, weight_type |-> t, wrapping |-> "GEMMA_PT",
           want_tok |-> FALSE] : m \in Models, t \in LoadTypes}

\* The codes the codec can return during a Load of file f.
LoadIO(f) ==
    IF ~f.exists THEN {[cfg_err |-> 0, tok_err |-> 0, read_err |-> 0]}
    ELSE IF f.toc
    THEN {[cfg_err |-> c, tok_err |-> k, read_err |-> r] :
             c \in {0, BlobErr}, k \in {0, BlobErr}, r \in {0, BlobErr}}
    ELSE {[cfg_err |-> 0, tok_err |-> 0, read_err |-> r] :
             r \in {0, BlobErr}}

\* The scale counts the registry can hold for the model of a legacy Load.
LoadReg(f) ==
    IF f.exists /\ ~f.toc
    THEN {c \in (0..MaxScaleCount) \X (0..MaxScaleCount) : c[1] >= c[2]}
    ELSE {<<0, 0>>}

LoadAct ==
    /\ CanCall
    /\ \E path \in Paths :
        LET f == files[path] IN
        \E a \in LoadArgs(f), io \in LoadIO(f), reg \in LoadReg(f) :
        \E pick \in Picks(St, IF f.toc THEN f.config.weight
                              ELSE a.weight_type) :
        LET r == Load(St, f, a.model_type, a.weight_type, a.wrapping,
                      a.want_tok, io, reg, pick)
        IN  /\ Commit(r.s)
            /\ aborted' = r.abort
            /\ last' = [op |-> "Load", ret |-> r.ret, steps |-> r.steps,
                        info |-> [path |-> path,
                                  known |-> a.weight_type # "kUnknown"
                                            /\ a.model_type # "UNKNOWN",
                                  fet |-> r.fet,
                                  handed |-> r.handed,
                                  nscales |-> r.nscales]]
    /\ calls' = calls + 1
    /\ UNCHANGED <<files, a_in, a_out>>

\* Save needs a container for CallForModelWeightT to be applied to.
SaveAct ==
    /\ CanCall
    /\ LiveSet(St) # {}
    /\ \E path \in SavePaths, write_err \in {0, BlobErr},
          pick \in LiveSet(St) :
        LET r == Save(St, files[path], write_err, pick)
        IN  /\ files' = [files EXCEPT ![path] = r.file]
            /\ last' = [op |-> "Save", ret |-> r.ret, steps |-> r.steps,
                        info |-> [path |-> path, fet |-> r.fet,
                                  added |-> r.added, from |-> r.from,
                                  write_err |-> write_err]]
    /\ calls' = calls + 1
    /\ UNCHANGED <<config_, float_weights_, bf16_weights_, sfp_weights_,
                   nuq_weights_, aborted, a_in, a_out>>

RandInitAct ==
    /\ CanCall
    /\ \E seed \in Seeds :
        LET r == RandInit(St, seed)
        IN  /\ Commit(r.s)
            /\ aborted' = r.abort
            /\ last' = [op |-> "RandInit", ret |-> NoRet, steps |-> <<>>,
                        info |-> [seed |-> seed, written |-> r.written,
                                  old_scales |->
                                      [n \in NameSet |->
                                          float_weights_.tensors[n].scale]]]
    /\ calls' = calls + 1
    /\ UNCHANGED <<files, a_in, a_out>>

ZeroInitAct ==
    /\ CanCall
    /\ Commit(ZeroInit(St))
    /\ last' = [op |-> "ZeroInit", ret |-> NoRet, steps |-> <<>>,
                info |-> [nonzero |->
                             {t \in LiveSet(St) :
                                 \E n \in NameSet :
                                     \E i \in 1..NumElements(n) :
                                         St.w[t].tensors[n].data[i] # 0}]]
    /\ calls' = calls + 1
    /\ UNCHANGED <<files, aborted, a_in, a_out>>

Next == AllocateAct \/ LoadAct \/ SaveAct \/ RandInitAct \/ ZeroInitAct

Spec == Init /\ [][Next]_vars

----------------------------------------------------------------------------
(* Alloc<T> applied to every element count, element size and quantum.      *)

AllocInit ==
    /\ StorageInit
    /\ FilesInit
    /\ a_in \in [num : 0..(SizeMax - 1), size : ElementSizes,
                 quantum : QuantumChoices]
    /\ a_out = [pc |-> "idle", handle |-> EmptyHandle]

AllocAct ==
    /\ a_out.pc = "idle"
    /\ a_out' = [pc |-> "done",
                 handle |-> Alloc(a_in.num, a_in.size, a_in.quantum)]
    /\ UNCHANGED <<config_, float_weights_, bf16_weights_, sfp_weights_,
                   nuq_weights_, files, aborted, calls, last, a_in>>

AllocNext == AllocAct

SpecAlloc == AllocInit /\ [][AllocNext]_vars

----------------------------------------------------------------------------
(* Geometry, StrideForCyclicOffsets<T> and RowPtr<T>.                      *)
(* Pointers to T are integers counted in elements of T: p + n is n         *)
(* elements, n * sizeof(T) bytes, after p.                                 *)

\* Allocator::MaxQuantumBytes()
MaxQuantumBytes == 4096

\* The geometries: StepBytes() and QuantumBytes(), powers of two with
\* step <= quantum <= MaxQuantumBytes().
Geometries ==
    {g \in [step : {64, 2048}, quantum : {64, 256, MaxQuantumBytes}] :
        g.step <= g.quantum}

\* Allocator::QuantumSteps() = QuantumBytes() / StepBytes()
QuantumSteps(g) == g.quantum \div g.step

\* sizeof(T) of the element types of a RowPtr<T>.
RowElementSizes == {1, 2, 3, 4, 8}

\* a & b on size_t
RECURSIVE BitAnd(_, _)
BitAnd(a, b) ==
    IF a = 0 \/ b = 0 THEN 0
    ELSE (a % 2) * (b % 2) + 2 * BitAnd(a \div 2, b \div 2)

\* StrideForCyclicOffsets<T>(cols), with kSize = sizeof(T).
StrideForCyclicOffsets(cols, kSize) ==
    LET quantum == MaxQuantumBytes \div kSize
    IN  RoundUpTo(cols, quantum) + quantum

\* RowPtr(row0, cols, stride) in geometry g; debug is HWY_IS_DEBUG_BUILD.
RowPtr(row0, cols, stride, g, kSize, debug) ==
    [row0_ |-> row0, stride_ |-> stride, step_ |-> g.step, cols_ |-> cols,
     row_mask_ |-> IF debug /\ stride < StrideForCyclicOffsets(cols, kSize)
                   THEN 0
                   ELSE QuantumSteps(g) - 1]

\* RowPtr(row0, cols) : RowPtr(row0, cols, cols)
RowPtrTight(row0, cols, g, kSize, debug) ==
    RowPtr(row0, cols, cols, g, kSize, debug)

\* pad_bytes of Row(r)
PadBytes(p, r) == BitAnd(r, p.row_mask_) * p.step_

\* RowPtr::Row(r): row0_ + stride_ * r - pad_bytes, pointer arithmetic on T*.
Row(p, r) == p.row0_ + p.stride_ * r - PadBytes(p, r)

\* Mutant of SetStride: the cyclic offsets stay as they were.
SetStrideKeepMask(p, stride) == [p EXCEPT !.stride_ = stride]

\* RowPtr::SetStride(stride)
SetStride(p, stride) == [p EXCEPT !.stride_ = stride, !.row_mask_ = 0]

\* RowPtr::View(r, c, cols)
View(p, r, c, cols, g, kSize, debug) ==
    RowPtr(Row(p, r) + c, cols, p.stride_, g, kSize, debug)

\* The cols and strides passed to the constructor, the strides passed to
\* SetStride, and the rows, columns and widths passed to View.
RowCols == {1, 5, 1500}
RowStrides(cols, kSize) ==
    {cols, StrideForCyclicOffsets(cols, kSize),
     StrideForCyclicOffsets(cols, kSize) + 1}
ViewRows(g) == {0, 1, QuantumSteps(g)}
ViewCols(p) == {c \in {0, 1} : c < p.cols_}
ViewWidths(p, c) == {w \in {1, p.cols_ - c} : w <= p.cols_ - c}

\* No RowPtr constructed yet.
RowsIdle ==
    [pc |-> "idle",
     p |-> [row0_ |-> 0, stride_ |-> 0, step_ |-> 0, cols_ |-> 0,
            row_mask_ |-> 0],
     op |-> "none", args |-> [none |-> TRUE], n |-> 0, stride_set |-> FALSE]

RowsInit ==
    /\ StorageInit
    /\ FilesInit
    /\ a_in \in [g : Geometries, size : RowElementSizes, debug : BOOLEAN]
    /\ a_out = RowsIdle

\* The RowPtr object of a_out becomes q, by operation op with arguments args.
RowsStep(q, op, args, stride_set) ==
    /\ a_out' = [pc |-> "ptr", p |-> q, op |-> op, args |-> args,
                 n |-> a_out.n + 1, stride_set |-> stride_set]
    /\ UNCHANGED <<config_, float_weights_, bf16_weights_, sfp_weights_,
                   nuq_weights_, files, aborted, calls, last, a_in>>

RowPtrAct ==
    /\ a_out.pc = "idle"
    /\ \E cols \in RowCols : \E stride \in RowStrides(cols, a_in.size) :
        RowsStep(RowPtr(0, cols, stride, a_in.g, a_in.size, a_in.debug),
                 "RowPtr", [cols |-> cols, stride |-> stride], FALSE)

RowPtrTightAct ==
    /\ a_out.pc = "idle"
    /\ \E cols \in RowCols :
        RowsStep(RowPtrTight(0, cols, a_in.g, a_in.size, a_in.debug),
                 "RowPtrTight", [cols |-> cols, stride |-> cols], FALSE)

SetStrideAct ==
    /\ a_out.pc = "ptr"
    /\ a_out.n < MaxRowOps
    /\ \E stride \in RowStrides(a_out.p.cols_, a_in.size) :
        RowsStep(SetStride(a_out.p, stride), "SetStride",
                 [stride |-> stride], TRUE)

ViewAct ==
    /\ a_out.pc = "ptr"
    /\ a_out.n < MaxRowOps
    /\ \E r \in ViewRows(a_in.g), c \in ViewCols(a_out.p) :
        \E cols \in ViewWidths(a_out.p, c) :
            RowsStep(View(a_out.p, r, c, cols, a_in.g, a_in.size,
                          a_in.debug),
                     "View", [r |-> r, c |-> c, cols |-> cols], FALSE)

RowsNext == RowPtrAct \/ RowPtrTightAct \/ SetStrideAct \/ ViewAct

SpecRows == RowsInit /\ [][RowsNext]_vars

----------------------------------------------------------------------------
(* RowVectorBatch<T>                                                       *)

\* Mutant of RowVectorBatch: stride 0 is kept instead of defaulting to cols.
RowVectorBatchNoDefault(rows, cols, stride, kSize, quantum) ==
    LET padded == RoundUpToSizeT((rows * stride) % SizeMax,
                                 quantum \div kSize)
    IN  [abort |-> stride < cols, rows |-> rows, cols |-> cols,
         stride_ |-> stride, mem_ |-> Alloc(padded, kSize, quantum)]

\* RowVectorBatch(Extents2D(rows, cols), stride), with kSize = sizeof(T) and
\* quantum = Allocator::QuantumBytes().  abort: HWY_ASSERT failed.
RowVectorBatch(rows, cols, stride, kSize, quantum) ==
    LET stride_ == IF stride = 0 THEN cols ELSE stride
        padded == RoundUpToSizeT((rows * stride_) % SizeMax,
                                 quantum \div kSize)
    IN  IF stride # 0 /\ ~(stride >= cols)
        THEN [abort |-> TRUE, rows |-> rows, cols |-> cols,
              stride_ |-> 0, mem_ |-> EmptyHandle]
        ELSE [abort |-> FALSE, rows |-> rows, cols |-> cols,
              stride_ |-> stride_, mem_ |-> Alloc(padded, kSize, quantum)]

BatchInit ==
    /\ StorageInit
    /\ FilesInit
    /\ a_in \in [rows : 0..MaxBatchDim, cols : 0..MaxBatchDim,
                 stride : 0..MaxBatchDim, size : ElementSizes,
                 quantum : QuantumChoices]
    /\ a_out = [pc |-> "idle",
                b |-> [abort |-> FALSE, rows |-> 0, cols |-> 0,
                       stride_ |-> 0, mem_ |-> EmptyHandle]]

RowVectorBatchAct ==
    /\ a_out.pc = "idle"
    /\ a_out' = [pc |-> "done",
                 b |-> RowVectorBatch(a_in.rows, a_in.cols, a_in.stride,
                                      a_in.size, a_in.quantum)]
    /\ UNCHANGED <<config_, float_weights_, bf16_weights_, sfp_weights_,
                   nuq_weights_, files, aborted, calls, last, a_in>>

BatchNext == RowVectorBatchAct

SpecBatch == BatchInit /\ [][BatchNext]_vars

\* RowVectorBatch::Batch(batch_idx): the element offset of the row in mem_.
Batch(b, batch_idx) == (batch_idx * b.stride_) % SizeMax

\* RowVectorBatch::NumBytes()
NumBytes(b, kSize) == (b.rows * b.stride_ * kSize) % SizeMax

\* Row counts and strides over the whole range of size_t: the small ones,
\* those around the square root of SizeMax, and the largest.
HalfWord == 2 ^ (WordBits \div 2)
WideDims == {0, 1, 2, 3, HalfWord - 1, HalfWord, HalfWord + 1,
             SizeMax \div 2, SizeMax - 2, SizeMax - 1}

BatchWideInit ==
    /\ StorageInit
    /\ FilesInit
    /\ a_in \in [rows : WideDims, cols : {0, 1, 3}, stride : WideDims,
                 size : ElementSizes, quantum : QuantumChoices]
    /\ a_out = [pc |-> "idle",
                b |-> [abort |-> FALSE, rows |-> 0, cols |-> 0,
                       stride_ |-> 0, mem_ |-> EmptyHandle]]

SpecBatchWide == BatchWideInit /\ [][BatchNext]_vars

----------------------------------------------------------------------------
(* Allocator::AllocClasses<T>, DeleterFree and DeleterDtor.                *)
(* The calls made on the instances and on the memory are recorded as a     *)
(* sequence of events: constructor and destructor of instance i, and the   *)
(* free function with its byte count.                                      *)

\* DeleterFree::operator()(p): free_func_(p, bytes_)
DeleterFree(mem) == <<[e |-> "free", i |-> mem.free_bytes]>>

\* Mutant of DeleterDtor: the memory is freed before the destructors run.
DeleterDtorFreeFirst(h) ==
    DeleterFree(h.mem) \o [i \in 1..h.num_ |-> [e |-> "dtor", i |-> i - 1]]

\* DeleterDtor::operator()(p): p[i].~T() for i < num_, then free_(p).
DeleterDtor(h) ==
    [i \in 1..h.num_ |-> [e |-> "dtor", i |-> i - 1]] \o DeleterFree(h.mem)

\* An empty AlignedClassPtr<T>: null pointer, DeleterDtor().
EmptyClassHandle == [mem |-> EmptyHandle, num_ |-> 0]

\* Allocator::AllocClasses<T>(num, args...): the handle and the constructor
\* calls made.
AllocClasses(num, kSize, quantum) ==
    LET kBits == ShiftCount(kSize)
        bytes == IF IsPow2(kSize)
                 THEN (num * (2 ^ kBits)) % SizeMax
                 ELSE (num * kSize) % SizeMax
        check == AllocCheck(bytes, kSize)
    IN  IF check # num
        THEN [h |-> EmptyClassHandle, events |-> <<>>]
        ELSE [h |-> [mem |-> AllocBytes(bytes, quantum), num_ |-> num],
              events |-> [i \in 1..num |-> [e |-> "ctor", i |-> i - 1]]]

\* ~unique_ptr<T[], DeleterDtor>: the deleter is called on a non-null pointer.
Release(h) == IF h.mem.empty THEN <<>> ELSE DeleterDtor(h)

ClassesInit ==
    /\ StorageInit
    /\ FilesInit
    /\ a_in \in [num : 0..(SizeMax - 1), size : ElementSizes,
                 quantum : QuantumChoices]
    /\ a_out = [pc |-> "idle", h |-> EmptyClassHandle, events |-> <<>>]

AllocClassesAct ==
    /\ a_out.pc = "idle"
    /\ LET r == AllocClasses(a_in.num, a_in.size, a_in.quantum)
       IN  a_out' = [pc |-> "held", h |-> r.h, events |-> r.events]
    /\ UNCHANGED <<config_, float_weights_, bf16_weights_, sfp_weights_,
                   nuq_weights_, files, aborted, calls, last, a_in>>

ReleaseAct ==
    /\ a_out.pc = "held"
    /\ a_out' = [a_out EXCEPT !.pc = "released",
                              !.events = @ \o Release(a_out.h)]
    /\ UNCHANGED <<config_, float_weights_, bf16_weights_, sfp_weights_,
                   nuq_weights_, files, aborted, calls, last, a_in>>

ClassesNext == AllocClassesAct \/ ReleaseAct

SpecClasses == ClassesInit /\ [][ClassesNext]_vars

----------------------------------------------------------------------------
(* LayerWeightsPtrs<NuqStream>::Reshape                                    *)
(* A compressed tensor is a sequence of codes; the working buffers hold    *)
(* the decoded values.                                                     *)

\* The codes of NuqStream elements, and the value a code decodes to.
NuqCodes == 0..(MaxDim * MaxDim * MaxDim)
NuqDecode(c) == c * c + 1

\* The code whose value is the nearest one not above v.
NuqEncode(v) ==
    CHOOSE c \in NuqCodes : NuqDecode(c) <= v /\ v < NuqDecode(c + 1)

\* DecompressAndZeroPad(df, packed, 0, raw, num)
DecompressAndZeroPad(packed, num) ==
    [i \in 1..num |-> NuqDecode(packed[i])]

\* Compress(raw, num, work, packed, 0, pool)
Compress(raw, num) == [i \in 1..num |-> NuqEncode(raw[i])]

\* The contents of a float buffer from hwy::AllocateAligned, before a write.
Unwritten == 0 - 1

\* hwy::CopyBytes(from + from_ofs, to + to_ofs, count * sizeof(float))
CopyBytes(from, from_ofs, to, to_ofs, count) ==
    [j \in DOMAIN to |->
        IF j - 1 >= to_ofs /\ j - 1 < to_ofs + count
        THEN from[from_ofs + (j - 1 - to_ofs) + 1]
        ELSE to[j]]

\* Mutant of ReshapeLoop: heads and rows are read in the order they are
\* written.
RECURSIVE ReshapeLoopStraight(_, _, _, _)
ReshapeLoopStraight(cfg, tmp, out, i) ==
    IF i = cfg.model_dim * cfg.heads THEN out
    ELSE LET m == i \div cfg.heads
             h == i % cfg.heads
         IN  ReshapeLoopStraight(cfg, tmp,
                 CopyBytes(tmp,
                           m * cfg.heads * cfg.qkv_dim + h * cfg.qkv_dim,
                           out,
                           m * cfg.heads * cfg.qkv_dim + h * cfg.qkv_dim,
                           cfg.qkv_dim),
                 i + 1)

\* The two loops of Reshape, over m then h; i counts the iterations done.
RECURSIVE ReshapeLoop(_, _, _, _)
ReshapeLoop(cfg, tmp, out, i) ==
    IF i = cfg.model_dim * cfg.heads THEN out
    ELSE LET m == i \div cfg.heads
             h == i % cfg.heads
         IN  ReshapeLoop(cfg, tmp,
                 CopyBytes(tmp,
                           h * cfg.model_dim * cfg.qkv_dim + m * cfg.qkv_dim,
                           out,
                           m * cfg.heads * cfg.qkv_dim + h * cfg.qkv_dim,
                           cfg.qkv_dim),
                 i + 1)

\* LayerWeightsPtrs<NuqStream>::Reshape(storage); storage is TRUE when the
\* MatStorage pointer is not null.  allocs counts the allocations made.
Reshape(layer, storage) ==
    IF ~layer.attn_vec_einsum_w.set THEN [layer |-> layer, allocs |-> 0]
    ELSE
    LET cfg == layer.layer_config
        num == cfg.model_dim * cfg.heads * cfg.qkv_dim
        attn_vec_einsum_w_tmp ==
            DecompressAndZeroPad(layer.attn_vec_einsum_w.data, num)
        att_weights_tmp ==
            ReshapeLoop(cfg, attn_vec_einsum_w_tmp,
                        [j \in 1..num |-> Unwritten], 0)
    IN  [layer |->
            [layer EXCEPT !.att_weights =
                [set |-> TRUE,
                 data |-> Compress(att_weights_tmp, num),
                 scale |-> layer.attn_vec_einsum_w.scale]],
         allocs |-> (IF storage THEN 1 ELSE 0) + 2]

\* The layer that input in describes: a source tensor that is unset or holds
\* one code per element, and a destination that has memory of its own
\* exactly when no storage is passed.
ReshapeLayer(in) ==
    LET num == in.model_dim * in.heads * in.qkv_dim
    IN  [layer_config |-> [model_dim |-> in.model_dim, heads |-> in.heads,
                           qkv_dim |-> in.qkv_dim],
         attn_vec_einsum_w |->
             [set |-> in.set,
              data |-> IF in.set
                       THEN [i \in 1..num |-> i - 1 + in.seed]
                       ELSE <<>>,
              scale |-> in.scale],
         att_weights |-> [set |-> ~in.storage, data |-> <<>>, scale |-> 1]]

ReshapeInit ==
    /\ StorageInit
    /\ FilesInit
    /\ a_in \in [model_dim : 1..MaxDim, heads : 1..MaxDim,
                 qkv_dim : 1..MaxDim, set : BOOLEAN, storage : BOOLEAN,
                 scale : Scales, seed : {0, 1}]
    /\ a_out = [pc |-> "idle", layer |-> ReshapeLayer(a_in), allocs |-> 0]

ReshapeAct ==
    /\ a_out.pc = "idle"
    /\ LET r == Reshape(a_out.layer, a_in.storage)
       IN  a_out' = [pc |-> "done", layer |-> r.layer, allocs |-> r.allocs]
    /\ UNCHANGED <<config_, float_weights_, bf16_weights_, sfp_weights_,
                   nuq_weights_, files, aborted, calls, last, a_in>>

ReshapeNext == ReshapeAct

SpecReshape == ReshapeInit /\ [][ReshapeNext]_vars

----------------------------------------------------------------------------
(* Ownership: AlignedPtr<T> = std::unique_ptr<T[], DeleterFree> and the     *)
(* RowVectorBatch<T> that holds one as mem_.                                *)
(* A pointer is the number of the buffer it points to, 0 for nullptr.  The  *)
(* heap records, per buffer, what AllocBytes put into its deleter and every *)
(* call that a deleter made for it.                                         *)

Handles == 1..MaxHandles

\* The adapters a FreeFunc points to, and the null FreeFunc.
FreeFuncs == {"FreeAlignedBytes", "munmap"}
NullFreeFunc == "nullptr"

\* DeleterFree(): free_func_(nullptr), bytes_(0)
DefaultDeleterFree == [free_func_ |-> NullFreeFunc, bytes_ |-> 0]

\* An object whose lifetime has not begun or has ended.
NoObject == [alive |-> FALSE, kind |-> "none", p |-> 0,
             deleter |-> DefaultDeleterFree]

\* AlignedPtr<T>() and RowVectorBatch() = default: a null pointer with a
\* default-constructed deleter.
DefaultObject(kind) == [alive |-> TRUE, kind |-> kind, p |-> 0,
                        deleter |-> DefaultDeleterFree]

OwnIdle == [pc |-> "idle", objs |-> [h \in Handles |-> NoObject],
            heap |-> <<>>, null_calls |-> 0]

\* DeleterFree::operator()(p) called by object by from the function via:
\* free_func_(p, bytes_).  Calling the null FreeFunc is counted in
\* null_calls.
DeleterFreeCall(o, d, p, by, via) ==
    IF d.free_func_ = NullFreeFunc
    THEN [o EXCEPT !.null_calls = @ + 1]
    ELSE [o EXCEPT !.heap[p].frees =
             Append(@, [free_func |-> d.free_func_, bytes |-> d.bytes_,
                        by |-> by, via |-> via])]

\* The object built from the handle that Alloc returned: a new buffer when
\* the handle is not empty, with the deleter of AllocBytes, which holds one
\* of the adapters and the bytes asked for.
Adopt(o, h, kind, handle, free_func) ==
    IF handle.empty
    THEN [o EXCEPT !.objs[h] = DefaultObject(kind)]
    ELSE LET id == Len(o.heap) + 1
             d == [free_func_ |-> free_func, bytes_ |-> handle.free_bytes]
         IN  [o EXCEPT !.objs[h] = [alive |-> TRUE, kind |-> kind, p |-> id,
                                    deleter |-> d],
                       !.heap = Append(@, [free_func |-> free_func,
                                           bytes |-> handle.free_bytes,
                                           frees |-> <<>>])]

\* Mutant of MoveConstruct: the source keeps its pointer.
MoveConstructCopy(o, dst, src) ==
    [o EXCEPT !.objs[dst] = o.objs[src]]

\* unique_ptr(unique_ptr&& u), and the defaulted RowVectorBatch move
\* constructor that applies it to mem_: takes u's pointer and deleter and
\* leaves u with nullptr.
MoveConstruct(o, dst, src) ==
    [o EXCEPT !.objs[dst] = o.objs[src], !.objs[src].p = 0]

\* unique_ptr::operator=(unique_ptr&& u): reset(u.release()), which calls
\* the deleter still held on the pointer held before if that is not null,
\* then takes u's deleter.
MoveAssign(o, dst, src) ==
    LET released == o.objs[src].p
        o1 == [o EXCEPT !.objs[src].p = 0]
        old == o1.objs[dst].p
        o2 == [o1 EXCEPT !.objs[dst].p = released]
        o3 == IF old # 0
              THEN DeleterFreeCall(o2, o2.objs[dst].deleter, old, dst,
                                   "reset")
              ELSE o2
    IN  [o3 EXCEPT !.objs[dst].deleter = o.objs[src].deleter]

\* ~unique_ptr(): calls the deleter on the pointer if it is not null.
Destroy(o, h) ==
    LET o1 == IF o.objs[h].p # 0
              THEN DeleterFreeCall(o, o.objs[h].deleter, o.objs[h].p, h,
                                   "~unique_ptr")
              ELSE o
    IN  [o1 EXCEPT !.objs[h] = NoObject]

\* Element counts passed to Alloc, and the rows of a one-column batch.
OwnNums == {2, 5, SizeMax - 1}

OwnInit ==
    /\ StorageInit
    /\ FilesInit
    /\ a_in \in [size : {1, 3}, quantum : {16}]
    /\ a_out = OwnIdle

OwnStep(o) ==
    /\ a_out' = [o EXCEPT !.pc = "run"]
    /\ UNCHANGED <<config_, float_weights_, bf16_weights_, sfp_weights_,
                   nuq_weights_, files, aborted, calls, last, a_in>>

\* AlignedPtr<T> h = Allocator::Alloc<T>(num);
OwnAllocAct ==
    \E h \in Handles, num \in OwnNums, f \in FreeFuncs :
        /\ ~a_out.objs[h].alive
        /\ Len(a_out.heap) < MaxBuffers
        /\ OwnStep(Adopt(a_out, h, "AlignedPtr",
                         Alloc(num, a_in.size, a_in.quantum), f))

\* RowVectorBatch<T> h(Extents2D(rows, 1));
OwnBatchAct ==
    \E h \in Handles, rows \in OwnNums, f \in FreeFuncs :
        /\ ~a_out.objs[h].alive
        /\ Len(a_out.heap) < MaxBuffers
        /\ OwnStep(Adopt(a_out, h, "RowVectorBatch",
                         RowVectorBatch(rows, 1, 0, a_in.size,
                                        a_in.quantum).mem_, f))

\* AlignedPtr<T> h;  or  RowVectorBatch<T> h;
OwnDefaultAct ==
    \E h \in Handles, kind \in {"AlignedPtr", "RowVectorBatch"} :
        /\ ~a_out.objs[h].alive
        /\ OwnStep([a_out EXCEPT !.objs[h] = DefaultObject(kind)])

\* T dst(std::move(src));
MoveConstructAct ==
    \E dst \in Handles, src \in Handles :
        /\ ~a_out.objs[dst].alive
        /\ a_out.objs[src].alive
        /\ OwnStep(MoveConstruct(a_out, dst, src))

\* dst = std::move(src);
MoveAssignAct ==
    \E dst \in Handles, src \in Handles :
        /\ a_out.objs[dst].alive
        /\ a_out.objs[src].alive
        /\ a_out.objs[dst].kind = a_out.objs[src].kind
        /\ OwnStep(MoveAssign(a_out, dst, src))

\* The end of the lifetime of h.
DestroyAct ==
    \E h \in Handles :
        /\ a_out.objs[h].alive
        /\ OwnStep(Destroy(a_out, h))

OwnNext ==
    \/ OwnAllocAct
    \/ OwnBatchAct
    \/ OwnDefaultAct
    \/ MoveConstructAct
    \/ MoveAssignAct
    \/ DestroyAct

SpecOwn == OwnInit /\ [][OwnNext]_vars

----------------------------------------------------------------------------
(* Properties.                                                             *)

\* A real step of the storage: operation op was called.
Called(op) == calls' = calls + 1 /\ last'.op = op

\* The storage fields other than config_ are left as they are.
ContainersUnchanged ==
    UNCHANGED <<float_weights_, bf16_weights_, sfp_weights_, nuq_weights_>>

\* C1: after any sequence of Allocate and Load calls on one storage, at most
\* one of the four variant containers is live.
C1_AtMostOneLive == Cardinality(LiveSet(St)) <= 1

\* C2: Alloc<T>(num) returns an empty handle exactly when num * sizeof(T)
\* does not fit in size_t; otherwise it asks for exactly num * sizeof(T)
\* bytes and returns a non-empty handle whose byte size is a multiple of the
\* quantum and at least num * sizeof(T).
C2_AllocOverflowContract ==
    a_out.pc = "done" =>
        LET h == a_out.handle
            product == a_in.num * a_in.size
        IN  /\ h.empty <=> product >= SizeMax
            /\ ~h.empty =>
                /\ h.requested = product
                /\ h.free_bytes = product
                /\ h.size % a_in.quantum = 0
                /\ h.size >= product

\* C2 witness: an element size that is no power of two, and a count whose
\* product with it wraps, got the empty handle.
C2_Witness ==
    /\ a_out.pc = "done"
    /\ a_in.size = 3
    /\ a_in.num * a_in.size >= SizeMax
    /\ a_out.handle.empty

\* C3: whenever Load returns 0, a container of the resolved config's weight
\* type is live and the bulk read of the enumerated tensors completed
\* without error; every failing path returns a nonzero code.
C3_LoadZeroOnlyOnSuccess ==
    (last.op = "Load" /\ ~aborted /\ last.ret = 0) =>
        /\ config_.weight \in LiveSet(St)
        /\ last.info.handed # {}
        /\ \E i \in 1..Len(last.steps) : last.steps[i] = "ReadAll"

\* C4: a Load of an existing legacy file with weight_type or model_type
\* unknown returns a nonzero code without aborting, before CreateForType,
\* the traversal, the scale list or the bulk read run: the containers and
\* the stored config are those of before the call.
C4_LegacyMissingTypes ==
    [][(Called("Load") /\ last'.info.fet = "kLoadNoToc"
            /\ ~last'.info.known) =>
        /\ last'.ret # 0
        /\ last'.ret # NoRet
        /\ ~aborted'
        /\ last'.steps = <<"Open">>
        /\ last'.info.handed = {}
        /\ UNCHANGED config_
        /\ ContainersUnchanged]_vars

\* C4 witness: such a Load was called on a storage that held a container
\* and a config.
C4_Witness ==
    /\ last.op = "Load"
    /\ last.info.fet = "kLoadNoToc"
    /\ ~last.info.known
    /\ last.ret = LineErr
    /\ LiveSet(St) # {}
    /\ config_ # DefaultConfig

\* C5: a Load of a path at which no file exists aborts the process as its
\* first step, before the blob container is opened, whatever the other
\* arguments are; it never returns a code.
C5_MissingFileAborts ==
    [][(Called("Load") /\ ~files[last'.info.path].exists) =>
        /\ aborted'
        /\ last'.ret = NoRet
        /\ last'.steps = <<>>
        /\ UNCHANGED config_
        /\ ContainersUnchanged]_vars

\* C5 witness: the path did not exist and both types were unknown.
C5_Witness ==
    /\ last.op = "Load"
    /\ ~files[last.info.path].exists
    /\ ~last.info.known
    /\ aborted

\* The calls of a legacy Load that returned 0, with and without a scale list.
LegacySteps ==
    <<"Open", "CreateForType", "TensorLoader", "LoadScales", "ReadAll",
      "GetOrApplyScales", "AllocAndCopyWithTranspose">>
LegacyStepsNoScales ==
    <<"Open", "CreateForType", "TensorLoader", "ReadAll",
      "AllocAndCopyWithTranspose">>

\* Step name occurs in the calls of the last operation.
Did(name) == \E i \in 1..Len(last.steps) : last.steps[i] = name

\* What C6 says of every Load, whatever the length of the scale list: no
\* scale is applied and nothing is transposed in a Load with a table of
\* contents, nor after a failed bulk read.
C6_NeverOtherwise ==
    /\ last.info.fet = "kLoadWithToc" =>
        ~Did("GetOrApplyScales") /\ ~Did("AllocAndCopyWithTranspose")
    /\ last.ret # 0 =>
        ~Did("GetOrApplyScales") /\ ~Did("AllocAndCopyWithTranspose")

\* C6 as claimed: a legacy Load creates the container, enumerates the
\* tensors, registers the scale list, reads, then applies the scales once
\* and transposes once; a Load with a table of contents, or one whose bulk
\* read failed, does neither.
C6_LegacyOrderAsClaimed ==
    last.op = "Load" =>
        /\ (last.info.fet = "kLoadNoToc" /\ last.ret = 0) =>
            last.steps = LegacySteps
        /\ C6_NeverOtherwise

\* C6 as amended: the order is that of the claim when the scale list has at
\* least one entry; with an empty scale list LoadScales and
\* GetOrApplyScales are both left out.  The list registered has
\* num_tensor_scales + vit num_scales entries.
C6_LegacyOrder ==
    last.op = "Load" =>
        /\ (last.info.fet = "kLoadNoToc" /\ last.ret = 0) =>
            /\ last.info.nscales =
                   config_.num_tensor_scales + config_.vit_num_scales
            /\ last.steps = IF last.info.nscales > 0
                            THEN LegacySteps ELSE LegacyStepsNoScales
        /\ (last.info.fet = "kLoadNoToc" /\ Did("ReadAll")
                /\ last.ret # 0) =>
            last.steps = (IF last.info.nscales > 0
                          THEN SubSeq(LegacySteps, 1, 5)
                          ELSE SubSeq(LegacyStepsNoScales, 1, 4))
        /\ C6_NeverOtherwise

\* C6 witness: a legacy Load with scales of both kinds returned 0, and the
\* scales reached the tensors.
C6_Witness ==
    /\ last.op = "Load"
    /\ last.info.fet = "kLoadNoToc"
    /\ last.ret = 0
    /\ config_.num_tensor_scales > 0
    /\ config_.vit_num_scales > 0
    /\ last.steps = LegacySteps
    /\ \A n \in NameSet : St.w[config_.weight].tensors[n].scale = MaxScale

\* C7: a Load of a file that Save wrote gives back what was saved: the
\* stored config is the saved one, every tensor the Load hands to the codec
\* was written by the Save, and for float32 and BF16 every named tensor has
\* the bytes and the scale that were saved.
C7_SaveLoadRoundTrip ==
    (last.op = "Load" /\ last.ret = 0
        /\ files[last.info.path].from # "none") =>
        LET f == files[last.info.path]
            t == f.config.weight
        IN  /\ config_ = f.config
            /\ last.info.handed \subseteq f.blobs
            /\ t \in {"kF32", "kBF16"} =>
                /\ St.w[t].live
                /\ \A n \in NameSet : St.w[t].tensors[n] = f.tensors[n]

\* C8: Save traverses in the with-toc mode, adds every tensor of the live
\* container to the writer, then attaches the tokenizer, then writes once;
\* it returns 0 exactly when the write returns 0, and the write's code
\* otherwise; the stored config and the containers are left as they were.
C8_SaveContract ==
    [][Called("Save") =>
        /\ last'.info.fet = "kLoadWithToc"
        /\ last'.steps = <<"TensorSaver", "AddTokenizer", "WriteAll">>
        /\ last'.info.from \in LiveSet(St)
        /\ last'.info.added = {<<n, 1>> : n \in NameSet}
        /\ last'.ret = last'.info.write_err
        /\ (last'.ret = 0) =>
            /\ files'[last'.info.path].toc
            /\ files'[last'.info.path].config = config_
            /\ \A n \in NameSet :
                  files'[last'.info.path].tensors[n] =
                      St.w[last'.info.from].tensors[n]
        /\ ~aborted'
        /\ UNCHANGED config_
        /\ ContainersUnchanged]_vars

\* C8 witness: a storage populated by a legacy Load was saved.
C8_Witness ==
    /\ last.op = "Save"
    /\ last.ret = 0
    /\ St.w[last.info.from].transposed
    /\ files[last.info.path].toc

\* C9: Allocate on a storage without a live container, with one of the four
\* variant types, stores the config with its weight set to the type, makes
\* exactly the container of that type live and allocates that container and
\* no other; with any other type the process aborts and no container
\* becomes live.
C9_AllocateContract ==
    [][(Called("Allocate") /\ LiveSet(St) = {}) =>
        LET t == last'.info.weight_type
        IN  IF t \in VariantTypes
            THEN /\ ~aborted'
                 /\ config_' = [last'.info.config EXCEPT !.weight = t]
                 /\ LiveSet(St)' = {t}
                 /\ last'.info.allocated = {t}
            ELSE /\ aborted'
                 /\ LiveSet(St)' = {}]_vars

\* C9 witness: the first call allocated BF16 with a config that named SFP.
C9_Witness ==
    /\ last.op = "Allocate"
    /\ calls = 1
    /\ last.info.config.weight = "kSFP"
    /\ config_.weight = "kBF16"
    /\ LiveSet(St) = {"kBF16"}

\* The tensor RandInit leaves for name n when its generator has seed seed.
Drawn(n, seed) ==
    [data |-> [i \in 1..NumElements(n) |->
                  Draw(seed, ElementsBefore(TensorIndex(n)) + i)],
     scale |-> 1]

\* C10: RandInit aborts whenever the float32 container is not live, and
\* then changes nothing; when it is live, every element of every tensor is
\* written and every tensor's scale becomes 1.0, whatever it was.
C10_RandInitContract ==
    [][Called("RandInit") =>
        IF ~float_weights_.live
        THEN /\ aborted'
             /\ UNCHANGED <<config_, float_weights_, files>>
             /\ ContainersUnchanged
        ELSE /\ ~aborted'
             /\ last'.info.written = NameSet
             /\ \A n \in NameSet :
                   float_weights_'.tensors[n] = Drawn(n, last'.info.seed)
             /\ UNCHANGED <<config_, bf16_weights_, sfp_weights_,
                            nuq_weights_, files>>]_vars

\* C10 witness: RandInit ran on float32 tensors whose scales were not 1.0.
C10_Witness ==
    /\ last.op = "RandInit"
    /\ ~aborted
    /\ \A n \in NameSet :
          /\ last.info.old_scales[n] # 1
          /\ float_weights_.tensors[n].scale = 1

\* Every element of every tensor of every live container of s is zero.
AllZero(s) ==
    \A t \in LiveSet(s) : \A n \in NameSet : \A i \in 1..NumElements(n) :
        s.w[t].tensors[n].data[i] = 0

\* C11: after ZeroInit every element of every tensor of the live container
\* is zero, whatever RandInit, Load or Allocate left there; a second
\* ZeroInit changes nothing more; without a live container ZeroInit changes
\* nothing.  ZeroInit never aborts and leaves config and liveness alone.
C11_ZeroInitContract ==
    [][Called("ZeroInit") =>
        /\ AllZero(St)'
        /\ (ZeroInit(St) = St)'
        /\ LiveSet(St)' = LiveSet(St)
        /\ LiveSet(St) = {} => ContainersUnchanged
        /\ ~aborted'
        /\ UNCHANGED <<config_, files>>]_vars

\* C11 witness: ZeroInit ran on a live container that held nonzero elements.
C11_Witness ==
    /\ last.op = "ZeroInit"
    /\ last.info.nonzero # {}
    /\ AllZero(St)

\* The RowPtr of a_out and the element size and geometry it lives in.
RP == a_out.p
RSize == a_in.size
RQS == a_in.g.quantum \div a_in.g.step
Rows == 0..MaxRow

\* The bytes by which Row(r) of the RowPtr lies before row0 + stride * r.
PulledBackBytes(r) == (RP.row0_ + RP.stride_ * r - Row(RP, r)) * RSize

\* C12: with cyclic offsets enabled, Row(r) is row0 advanced by stride * r
\* elements and pulled back by exactly (r mod quantum_steps) * step bytes;
\* the pad is a multiple of step bytes and smaller than quantum_bytes,
\* Row(r + quantum_steps) - Row(r) = stride * quantum_steps, and Row(r) is
\* at most quantum_bytes bytes before row0, for every element size.
C12_CyclicPad ==
    (a_out.pc = "ptr" /\ RP.row_mask_ # 0) =>
        \A r \in Rows :
            /\ PulledBackBytes(r) = (r % RQS) * a_in.g.step
            /\ PulledBackBytes(r) % a_in.g.step = 0
            /\ PulledBackBytes(r) < a_in.g.quantum
            /\ Row(RP, r + RQS) - Row(RP, r) = RP.stride_ * RQS
            /\ (RP.row0_ - Row(RP, r)) * RSize <= a_in.g.quantum

\* The quantum element count of StrideForCyclicOffsets<T>.
RQuantumElems == MaxQuantumBytes \div RSize

\* The RowPtr was built by a constructor call of the caller, on a buffer
\* that starts at row0.
Built == a_out.pc = "ptr" /\ a_out.op \in {"RowPtr", "RowPtrTight"}

\* C13: StrideForCyclicOffsets<T>(cols) is cols rounded up to a multiple of
\* the quantum element count plus one more quantum of elements, is >= cols,
\* and a RowPtr built with that stride has Row(r) >= row0 for every r >= 0.
C13_StrideSlack ==
    (Built /\ a_out.args.stride
                 = StrideForCyclicOffsets(a_out.args.cols, RSize)) =>
        /\ RP.stride_ % RQuantumElems = 0
        /\ RP.stride_ - RQuantumElems >= RP.cols_
        /\ RP.stride_ - RQuantumElems < RP.cols_ + RQuantumElems
        /\ RP.stride_ >= RP.cols_
        /\ \A r \in Rows : Row(RP, r) >= RP.row0_

\* C14: View(r, c, cols) has Cols() = cols, the parent's stride, and
\* view.Row(k) = parent.Row(r + k) + c for every k >= 0, for every r and
\* whether or not the parent's cyclic offsets are enabled.
C14_ViewRows ==
    [][(a_out'.n = a_out.n + 1 /\ a_out'.op = "View") =>
        /\ a_out'.p.cols_ = a_out'.args.cols
        /\ a_out'.p.stride_ = a_out.p.stride_
        /\ \A k \in Rows :
              Row(a_out'.p, k)
                  = Row(a_out.p, a_out'.args.r + k) + a_out'.args.c]_vars

\* C15 (the call): SetStride(s) makes Stride() = s and Row(r) = row0 + s * r
\* for every r, so consecutive rows are s elements apart; row0 and Cols()
\* stay as they were.
C15_SetStrideExact ==
    [][(a_out'.n = a_out.n + 1 /\ a_out'.op = "SetStride") =>
        /\ a_out'.p.stride_ = a_out'.args.stride
        /\ a_out'.p.row0_ = a_out.p.row0_
        /\ a_out'.p.cols_ = a_out.p.cols_
        /\ a_out'.p.row_mask_ = 0
        /\ a_out'.stride_set
        /\ \A r \in Rows :
              /\ Row(a_out'.p, r)
                     = a_out.p.row0_ + a_out'.args.stride * r
              /\ Row(a_out'.p, r + 1) - Row(a_out'.p, r)
                     = a_out'.args.stride]_vars

\* C15: once SetStride was called on a RowPtr, its cyclic offsets stay
\* disabled: Row(r) = row0 + Stride() * r for every r, and the call itself
\* does what C15_SetStrideExact says.
C15_SetStridePermanent ==
    /\ [](a_out.stride_set =>
            /\ RP.row_mask_ = 0
            /\ \A r \in Rows : Row(RP, r) = RP.row0_ + RP.stride_ * r)
    /\ C15_SetStrideExact

\* C15 witness: SetStride was called twice on a RowPtr that a release build
\* constructed with cyclic offsets enabled; rows are now stride apart.
C15_Witness ==
    /\ a_out.pc = "ptr"
    /\ a_out.n = 3
    /\ a_out.op = "SetStride"
    /\ a_out.stride_set
    /\ ~a_in.debug
    /\ QuantumSteps(a_in.g) > 1
    /\ RP.stride_ > RP.cols_
    /\ Row(RP, 1) = RP.row0_ + RP.stride_

\* C18: a RowPtr constructed with a stride smaller than
\* StrideForCyclicOffsets<T>(cols), the tight stride of the two-argument
\* constructor included, has its cyclic offsets disabled: Row(r) = row0 +
\* stride * r and no Row(r) lies before row0, in every build.
C18_SmallStrideDisablesPad ==
    (Built /\ a_out.args.stride
                 < StrideForCyclicOffsets(a_out.args.cols, RSize)) =>
        /\ RP.row_mask_ = 0
        /\ \A r \in Rows :
              /\ Row(RP, r) = RP.row0_ + RP.stride_ * r
              /\ Row(RP, r) >= RP.row0_

\* C20: with cyclic offsets enabled and stride >=
\* StrideForCyclicOffsets<T>(cols), rows do not overlap and stay inside the
\* matrix: Row(r) + cols <= Row(r + 1), and for R rows
\* Row(R - 1) + cols <= row0 + R * stride.
C20_RowsDisjoint ==
    (Built /\ RP.row_mask_ # 0
           /\ RP.stride_ >= StrideForCyclicOffsets(RP.cols_, RSize)) =>
        \A r \in Rows :
            /\ Row(RP, r) + RP.cols_ <= Row(RP, r + 1)
            /\ Row(RP, r) + RP.cols_ <= RP.row0_ + (r + 1) * RP.stride_

\* C16: a constructed RowVectorBatch has Stride() >= Cols(): stride 0 gives
\* Stride() = Cols(), a nonzero stride below cols fails the assertion, any
\* other stride is kept; the buffer it allocates has a byte size that is a
\* multiple of QuantumBytes() and holds rows * Stride() elements, for
\* every element size.
C16_BatchStrideAndSize ==
    a_out.pc = "done" =>
        IF a_in.stride # 0 /\ a_in.stride < a_in.cols
        THEN a_out.b.abort
        ELSE /\ ~a_out.b.abort
             /\ a_out.b.cols = a_in.cols
             /\ a_out.b.stride_ >= a_out.b.cols
             /\ a_in.stride = 0 => a_out.b.stride_ = a_in.cols
             /\ a_in.stride # 0 => a_out.b.stride_ = a_in.stride
             /\ a_out.b.mem_.size % a_in.quantum = 0
             /\ ~a_out.b.mem_.empty =>
                    a_out.b.mem_.size
                        >= a_in.rows * a_out.b.stride_ * a_in.size

\* C16 witness: a batch with the default stride whose element size does not
\* divide QuantumBytes(), so that the bytes asked for are no quantum
\* multiple while the buffer is.
C16_Witness ==
    /\ a_out.pc = "done"
    /\ a_in.stride = 0
    /\ a_in.rows > 1
    /\ a_in.cols > 1
    /\ a_in.quantum % a_in.size # 0
    /\ ~a_out.b.mem_.empty
    /\ a_out.b.mem_.requested % a_in.quantum # 0
    /\ a_out.b.mem_.size % a_in.quantum = 0

\* C17: AllocClasses returns an empty handle exactly when num * sizeof(T)
\* does not fit in size_t, and then runs no constructor; otherwise it asks
\* for num * sizeof(T) bytes and constructs instances 0..num-1, and the
\* release of the handle runs the destructor of each of them once and then
\* calls the free function once, with the byte count of the allocation.
C17_AllocClassesContract ==
    a_out.pc \in {"held", "released"} =>
        LET n == a_in.num
            ev == a_out.events
        IN  /\ a_out.h.mem.empty <=> (n * a_in.size >= 2 ^ WordBits)
            /\ a_out.h.mem.empty => ev = <<>>
            /\ ~a_out.h.mem.empty =>
                /\ a_out.h.mem.requested = n * a_in.size
                /\ a_out.h.mem.size % a_in.quantum = 0
                /\ a_out.h.mem.size >= n * a_in.size
                /\ Len(ev) = IF a_out.pc = "held" THEN n ELSE 2 * n + 1
                /\ \A i \in 1..n : ev[i] = [e |-> "ctor", i |-> i - 1]
                /\ a_out.pc = "released" =>
                    /\ \A i \in 1..n :
                          ev[n + i] = [e |-> "dtor", i |-> i - 1]
                    /\ ev[2 * n + 1] = [e |-> "free", i |-> n * a_in.size]

\* C17 witness: a handle to several instances of a type whose size is no
\* power of two was released.
C17_Witness ==
    /\ a_out.pc = "released"
    /\ a_in.num > 2
    /\ a_in.size = 3
    /\ ~a_out.h.mem.empty
    /\ Len(a_out.events) = 2 * a_in.num + 1

\* C19: Reshape allocates nothing and changes neither tensor when the
\* source is unset; otherwise, on decoded values,
\* destination[m][h * qkv_dim + k] = source[h][m][k] for every m, h, k, the
\* index map is a bijection onto the destination, the destination's scale
\* is the source's and the source is unchanged.
C19_ReshapeIndexMap ==
    a_out.pc = "done" =>
        LET before == ReshapeLayer(a_in)
            src == a_out.layer.attn_vec_einsum_w
            dst == a_out.layer.att_weights
            M == a_in.model_dim
            H == a_in.heads
            K == a_in.qkv_dim
            Idx == (0..(M - 1)) \X (0..(H - 1)) \X (0..(K - 1))
        IN  /\ src = before.attn_vec_einsum_w
            /\ IF ~a_in.set
               THEN a_out.layer = before /\ a_out.allocs = 0
               ELSE /\ Len(dst.data) = M * H * K
                    /\ \A x \in Idx :
                          NuqDecode(dst.data[x[1] * H * K + x[2] * K
                                             + x[3] + 1])
                              = NuqDecode(src.data[x[2] * M * K + x[1] * K
                                                   + x[3] + 1])
                    /\ {x[1] * H * K + x[2] * K + x[3] + 1 : x \in Idx}
                           = 1..(M * H * K)
                    /\ dst.scale = src.scale

\* C19 witness: a source with more than one head, row and element per head
\* and a scale other than 1.0 was reshaped into another order.
C19_Witness ==
    /\ a_out.pc = "done"
    /\ a_in.set
    /\ a_in.model_dim > 1
    /\ a_in.heads > 1
    /\ a_in.qkv_dim > 1
    /\ a_in.scale # 1
    /\ a_out.layer.att_weights.data # a_out.layer.attn_vec_einsum_w.data
    /\ a_out.layer.att_weights.scale = a_in.scale

\* The objects that hold a pointer to buffer id.
Owners(id) == {h \in Handles : a_out.objs[h].alive /\ a_out.objs[h].p = id}

\* C21: over every sequence of Alloc, RowVectorBatch construction, default
\* construction, move construction, move assignment and destruction, each
\* buffer is owned by exactly one object until it is freed and by none
\* after, it is freed at most once, and exactly once when no object is left,
\* with the free function and byte count that AllocBytes recorded; the null
\* free function of a default DeleterFree is never called.
C21_ExclusiveOwnership ==
    a_out.pc = "run" =>
        /\ a_out.null_calls = 0
        /\ \A id \in 1..Len(a_out.heap) :
              LET b == a_out.heap[id]
              IN  /\ Len(b.frees) <= 1
                  /\ Len(b.frees) = 0 => Cardinality(Owners(id)) = 1
                  /\ Len(b.frees) = 1 =>
                        /\ Owners(id) = {}
                        /\ b.frees[1].free_func = b.free_func
                        /\ b.frees[1].bytes = b.bytes
        /\ \A h \in Handles :
              a_out.objs[h].alive /\ a_out.objs[h].p # 0 =>
                  /\ a_out.objs[h].deleter.free_func_
                         = a_out.heap[a_out.objs[h].p].free_func
                  /\ a_out.objs[h].deleter.bytes_
                         = a_out.heap[a_out.objs[h].p].bytes

\* C21 witness: two buffers with different free functions and byte counts
\* were allocated; the first was freed by a move assignment to the object
\* that held it, the second by the destruction of that same object, and no
\* object is left.
C21_Witness ==
    /\ a_out.pc = "run"
    /\ Len(a_out.heap) = 2
    /\ a_out.heap[1].free_func # a_out.heap[2].free_func
    /\ a_out.heap[1].bytes # a_out.heap[2].bytes
    /\ \A id \in 1..2 : Len(a_out.heap[id].frees) = 1
    /\ a_out.heap[1].frees[1].by = 2
    /\ a_out.heap[1].frees[1].via = "reset"
    /\ a_out.heap[2].frees[1].by = 2
    /\ a_out.heap[2].frees[1].via = "~unique_ptr"
    /\ \A h \in Handles : ~a_out.objs[h].alive

\* C22: for every rows, cols and stride, with size_t arithmetic wrapping,
\* a constructed RowVectorBatch holds an empty buffer or one of at least
\* rows * Stride() elements, so that every Batch(i) with i < rows addresses
\* Stride() elements inside the buffer.
C22_BatchFitsBuffer ==
    a_out.pc = "done" /\ ~a_out.b.abort /\ ~a_out.b.mem_.empty =>
        /\ a_out.b.mem_.size >= a_out.b.rows * a_out.b.stride_ * a_in.size
        /\ \A i \in 0..(a_out.b.rows - 1) :
              (Batch(a_out.b, i) + a_out.b.stride_) * a_in.size
                  <= a_out.b.mem_.size

====
